---- MODULE Spec2Model ----
(***************************************************************************)
(* The cross-filter dashboard of this repository, as a state machine.      *)
(*                                                                         *)
(* Three variants share one design (two Dash callbacks: one that keeps the *)
(* Filter State in three dcc.Store components, one that renders the view   *)
(* from the stores):                                                       *)
(*   "app"       src/app.py                                                *)
(*   "plotly_sm" src/app_cross_filter_plotly_state_management.py           *)
(*   "vega_sm"   src/app_cross_filter_vega_state_management.py.py          *)
(* A fourth, src/app_cross_filter_vega.py, has one callback and no stores  *)
(* and is modelled apart (SpecSingle).                                     *)
(*                                                                         *)
(* Python values are modelled with their type: a value is a record         *)
(* [k, s] with k the Python type ("str", "num", "none") and s its text, a  *)
(* sequence of symbols.  A symbol is a blank " ", a digit, a sign, or an   *)
(* unbreakable chunk of non-blank characters ("Chairs").                   *)
(***************************************************************************)
EXTENDS Integers, Sequences, FiniteSets, TLC

VARIABLES variant, ties, df, loaded, store, view, dirty, refire, last, net

vars == <<variant, ties, df, loaded, store, view, dirty, refire, last, net>>

----------------------------------------------------------------------------
(* Python values *)

Variants == {"app", "plotly_sm", "vega_sm"}

\* The dimensions and the DataFrame column each stands for:
\* sub = "Sub-Category", state = "State", cust = "CustomerName".
Dims == {"sub", "state", "cust"}

Txt(cs) == [k |-> "str", s |-> cs]

T(a) == Txt(<<a>>)

Num(cs) == [k |-> "num", s |-> cs]

NoneV == [k |-> "none", s |-> <<>>]

\* The sentinel "All".
ALL == T("All")

\* str(v)
PyStr(v) ==
  CASE v.k = "str" -> v
    [] v.k = "num" -> Txt(v.s)
    [] v.k = "none" -> T("None")

RECURSIVE LStrip(_)
LStrip(cs) == IF cs # <<>> /\ Head(cs) = " " THEN LStrip(Tail(cs)) ELSE cs

RECURSIVE RStrip(_)
RStrip(cs) ==
  IF cs # <<>> /\ cs[Len(cs)] = " " THEN RStrip(SubSeq(cs, 1, Len(cs) - 1)) ELSE cs

\* str.strip() of a str value
PyStrip(v) == Txt(RStrip(LStrip(v.s)))

Digit(n) == <<"0", "1", "2", "3", "4", "5", "6", "7", "8", "9">>[n + 1]

RECURSIVE DecDigits(_)
DecDigits(n) == IF n < 10 THEN <<Digit(n)>> ELSE DecDigits(n \div 10) \o <<Digit(n % 10)>>

\* the decimal text of an integer, as str() and format() write it
DecStr(n) == IF n < 0 THEN <<"-">> \o DecDigits(-n) ELSE DecDigits(n)

RECURSIVE Commas(_)
Commas(ds) ==
  IF Len(ds) <= 3 THEN ds
  ELSE Commas(SubSeq(ds, 1, Len(ds) - 3)) \o <<",">> \o SubSeq(ds, Len(ds) - 2, Len(ds))

\* f"{n:,}" (and the digits of f"{n:,.0f}") of an integral n
FmtGrouped(n) == IF n < 0 THEN <<"-">> \o Commas(DecDigits(-n)) ELSE Commas(DecDigits(n))

\* f"${n:,.0f}" of an integral n
FmtMoney(n) == <<"$">> \o FmtGrouped(n)

----------------------------------------------------------------------------
(* The Dataset: merged rows of Details.csv and Orders.csv *)

Row(o, sb, st, cu, a, p, q) ==
  [order |-> o, sub |-> sb, state |-> st, cust |-> cu, amount |-> a, profit |-> p, qty |-> q]

\* The fixture of the specification's metric test, with sub-categories and customers.
Fixture ==
  << Row(1, T("Chairs"), T("CA"), T("Ann"), 100, 20, 2),
     Row(1, T("Tables"), T("CA"), T("Ann"), 50, 5, 1),
     Row(2, T("Chairs"), T("NY"), T("Bob"), 200, 40, 3) >>

\* Group sums A:30, B:50, C:50, D:10 with the tied groups first met as C, then B.
Tied ==
  << Row(1, T("C"), T("CA"), T("Ann"), 50, 50, 1),
     Row(2, T("A"), T("CA"), T("Ann"), 30, 30, 1),
     Row(3, T("B"), T("NY"), T("Bob"), 50, 50, 2),
     Row(4, T("D"), T("NY"), T("Bob"), 10, 10, 1) >>

\* A raw table in which equal-looking values differ by surrounding blanks.
Padded ==
  << Row(1, T("Chairs"), Txt(<<"CA", " ">>), T("Ann"), 10, 1, 1),
     Row(2, T("Chairs"), T("CA"), T("Bob"), 20, -2, 1) >>

\* More sub-categories and customers than any chart shows: one row per sub-category
\* and customer in state TA, and a small second row of the first of them in state TB.
WideGroups == 11

WideName(c, i) == Txt(<<c, Digit(i \div 10), Digit(i % 10)>>)

Wide ==
  [i \in 1..WideGroups |-> Row(i, WideName("S", i), T("TA"), WideName("U", i), i * 10, i, 1)]
    \o << Row(WideGroups + 1, WideName("S", 1), T("TB"), WideName("U", 1), 5, 0, 1) >>

RawTables == {Fixture, Tied, Padded, Wide}

\* one string column of load_data: astype(str).str.strip()
CleanCol(v) == PyStrip(PyStr(v))

\* load_data(): the state-management variants clean the three string columns; app.py
\* cleans the numeric columns only (the tables here hold numbers already).
LoadData(var, raw) ==
  IF var = "app" THEN raw
  ELSE [i \in DOMAIN raw |->
          [raw[i] EXCEPT !.sub = CleanCol(@), !.state = CleanCol(@), !.cust = CleanCol(@)]]

\* Details.csv and Orders.csv at startup: both there and readable, one of them missing,
\* or both there and one of them not readable as a table
FileStates == {"present", "missing", "unreadable"}

\* what the start of the program yields: the global df, or an exception that ends it
Loaded(rows) == [status |-> "ok", rows |-> rows]

StartupError == [status |-> "raise", rows |-> <<>>]

\* the name df_merged after the try statement of load_data: the merge binds it when
\* both files are read; os.path.exists sends a missing file to the raise, read_csv
\* raises on an unreadable one, and the except clause prints a line and binds nothing
DfMergedBound(files) == files = "present"

\* the start of a variant.  app.py reads the files at module level with no handler.
\* load_data of the state-management variants goes on after the except clause to
\* "if col in df_merged.columns", which raises UnboundLocalError when df_merged was
\* not bound.
load_data(var, files, raw) ==
  IF var = "app"
  THEN IF files = "present" THEN Loaded(LoadData(var, raw)) ELSE StartupError
  ELSE IF DfMergedBound(files) THEN Loaded(LoadData(var, raw)) ELSE StartupError

----------------------------------------------------------------------------
(* Callback 1: the Filter State (manage_state / manage_filters) *)

AllStore == [sub |-> ALL, state |-> ALL, cust |-> ALL]

\* ctx.triggered is empty (the call at page load)
NoTrigger == "."

\* Mutant of ResetId: the callbacks of the three variants test for 'clear-btn'.
ResetId_one_id(var) == "clear-btn"

\* the id of the reset button: 'clear-btn' in app.py, 'btn-reset' in the other two
ResetId(var) == IF var = "app" THEN "clear-btn" ELSE "btn-reset"

ChartId(d) ==
  CASE d = "sub" -> "chart-subcat"
    [] d = "state" -> "chart-state"
    [] d = "cust" -> "chart-customer"

\* "chart" in trigger_id
HasChart(id) == id \in {ChartId(d) : d \in Dims}

\* clickData of a dcc.Graph: None, {}, {'points': []}, {'points': [{'x': .., 'y': ..}]}
ClickNone == [t |-> "none", x |-> NoneV, y |-> NoneV]

ClickEmpty == [t |-> "empty", x |-> NoneV, y |-> NoneV]

ClickNoPoints == [t |-> "nopoints", x |-> NoneV, y |-> NoneV]

ClickPoint(px, py) == [t |-> "point", x |-> px, y |-> py]

\* "not click_data" / "click_data" as a condition
ClickFalsy(c) == c.t \in {"none", "empty"}

NoClicks == [d \in Dims |-> ClickNone]

\* signalData of a dvc.Vega for its observed signal sel_*, with F the chart's field:
\*   none      None                       nosignal  {} or {'other': ...}
\*   emptysel  {'sel_*': {}}              emptylist {'sel_*': {F: []}}
\*   wrongkey  {'sel_*': {'other': [v]}}  sel       {'sel_*': {F: [v]}}
SigNone == [t |-> "none", v |-> NoneV]

Sig(shape, val) == [t |-> shape, v |-> val]

NoSignals == [d \in Dims |-> SigNone]

\* what a callback returns: its outputs, or PreventUpdate.  The outputs are the three
\* stores and, in the Plotly variants, the clickData of the three charts, for which
\* every return statement gives None, None, None.
Returned(s) == [status |-> "ok", store |-> s, clicks |-> NoClicks]

PreventUpdate == [status |-> "prevent", store |-> AllStore, clicks |-> NoClicks]

\* Mutant of get_next_state: a click on the selected value selects it again.
get_next_state_no_toggle(click_data, current_state, key) ==
  IF ClickFalsy(click_data) THEN current_state
  ELSE IF click_data.t = "nopoints" THEN current_state
  ELSE click_data[key]

\* app.py: manage_state.get_next_state
get_next_state(click_data, current_state, key) ==
  IF ClickFalsy(click_data) THEN current_state
  ELSE IF click_data.t = "nopoints" THEN current_state
  ELSE LET clicked_val == click_data[key]
       IN  IF PyStr(clicked_val) = PyStr(current_state) THEN ALL ELSE clicked_val

\* Mutant of manage_state: the category of the horizontal chart is read from the x axis.
manage_state_x_axis(trigger_id, c, s) ==
  IF trigger_id = NoTrigger THEN Returned(AllStore)
  ELSE IF HasChart(trigger_id) /\ (\E d \in Dims : ChartId(d) = trigger_id /\ c[d].t = "none")
    THEN PreventUpdate
  ELSE IF trigger_id = "clear-btn" THEN Returned(AllStore)
  ELSE IF trigger_id = "chart-subcat"
    THEN Returned([sub |-> get_next_state(c.sub, s.sub, "x"), state |-> s.state, cust |-> s.cust])
  ELSE IF trigger_id = "chart-state"
    THEN Returned([sub |-> s.sub, state |-> get_next_state(c.state, s.state, "x"), cust |-> s.cust])
  ELSE IF trigger_id = "chart-customer"
    THEN Returned([sub |-> s.sub, state |-> s.state, cust |-> get_next_state(c.cust, s.cust, "x")])
  ELSE Returned(s)

\* Mutant of manage_state: the run triggered by a clickData of None is not refused.
manage_state_no_guard(trigger_id, c, s) ==
  IF trigger_id = NoTrigger THEN Returned(AllStore)
  ELSE IF trigger_id = "clear-btn" THEN Returned(AllStore)
  ELSE IF trigger_id = "chart-subcat"
    THEN Returned([sub |-> get_next_state(c.sub, s.sub, "y"), state |-> s.state, cust |-> s.cust])
  ELSE IF trigger_id = "chart-state"
    THEN Returned([sub |-> s.sub, state |-> get_next_state(c.state, s.state, "x"), cust |-> s.cust])
  ELSE IF trigger_id = "chart-customer"
    THEN Returned([sub |-> s.sub, state |-> s.state, cust |-> get_next_state(c.cust, s.cust, "x")])
  ELSE Returned(s)

\* app.py: manage_state
manage_state(trigger_id, c, s) ==
  IF trigger_id = NoTrigger THEN Returned(AllStore)
  ELSE IF HasChart(trigger_id) /\ (\E d \in Dims : ChartId(d) = trigger_id /\ c[d].t = "none")
    THEN PreventUpdate
  ELSE IF trigger_id = "clear-btn" THEN Returned(AllStore)
  ELSE IF trigger_id = "chart-subcat"
    THEN Returned([sub |-> get_next_state(c.sub, s.sub, "y"), state |-> s.state, cust |-> s.cust])
  ELSE IF trigger_id = "chart-state"
    THEN Returned([sub |-> s.sub, state |-> get_next_state(c.state, s.state, "x"), cust |-> s.cust])
  ELSE IF trigger_id = "chart-customer"
    THEN Returned([sub |-> s.sub, state |-> s.state, cust |-> get_next_state(c.cust, s.cust, "x")])
  ELSE Returned(s)

\* app_cross_filter_plotly_state_management.py: manage_filters.get_new_filter_value
get_new_filter_value(click_data, current_filter, key_name) ==
  IF click_data.t # "point" THEN current_filter
  ELSE LET clicked_val == PyStrip(PyStr(click_data[key_name]))
       IN  IF PyStr(current_filter) # ALL /\ clicked_val = PyStr(current_filter)
           THEN ALL ELSE clicked_val

\* app_cross_filter_plotly_state_management.py: manage_filters
manage_filters_plotly(trigger_id, c, s) ==
  IF trigger_id = NoTrigger THEN Returned(AllStore)
  ELSE IF \E d \in Dims : trigger_id = ChartId(d) /\ c[d].t = "none" THEN PreventUpdate
  ELSE IF trigger_id = "btn-reset" THEN Returned(AllStore)
  ELSE IF trigger_id = "chart-subcat" /\ ~ClickFalsy(c.sub)
    THEN Returned([sub |-> get_new_filter_value(c.sub, s.sub, "y"),
                   state |-> s.state, cust |-> s.cust])
  ELSE IF trigger_id = "chart-state" /\ ~ClickFalsy(c.state)
    THEN Returned([sub |-> s.sub,
                   state |-> get_new_filter_value(c.state, s.state, "x"), cust |-> s.cust])
  ELSE IF trigger_id = "chart-customer" /\ ~ClickFalsy(c.cust)
    THEN Returned([sub |-> s.sub, state |-> s.state,
                   cust |-> get_new_filter_value(c.cust, s.cust, "x")])
  ELSE Returned(s)

\* Mutant of process_signal: a selected value is stored whatever the filter holds.
process_signal_no_toggle(signal_data, current_filter) ==
  IF signal_data.t \in {"none", "nosignal"} THEN current_filter
  ELSE IF signal_data.t = "emptysel" THEN ALL
  ELSE IF signal_data.t = "sel" THEN signal_data.v
  ELSE current_filter

\* app_cross_filter_vega_state_management.py.py: manage_filters.process_signal
process_signal(signal_data, current_filter) ==
  IF signal_data.t \in {"none", "nosignal"} THEN current_filter
  ELSE IF signal_data.t = "emptysel" THEN ALL
  ELSE IF signal_data.t = "sel"
    THEN LET clicked_val == signal_data.v
         IN  IF PyStr(current_filter) # ALL /\ PyStr(clicked_val) = PyStr(current_filter)
             THEN ALL ELSE clicked_val
  ELSE current_filter

\* Mutant of manage_filters_vega: a chart's signal clears the other two stores.
manage_filters_vega_clears(trigger_id, g, s) ==
  IF trigger_id = NoTrigger THEN Returned(AllStore)
  ELSE IF trigger_id = "btn-reset" THEN Returned(AllStore)
  ELSE IF trigger_id = "chart-subcat"
    THEN Returned([sub |-> process_signal(g.sub, s.sub), state |-> ALL, cust |-> ALL])
  ELSE IF trigger_id = "chart-state"
    THEN Returned([sub |-> ALL, state |-> process_signal(g.state, s.state), cust |-> ALL])
  ELSE IF trigger_id = "chart-customer"
    THEN Returned([sub |-> ALL, state |-> ALL, cust |-> process_signal(g.cust, s.cust)])
  ELSE Returned(s)

\* app_cross_filter_vega_state_management.py.py: manage_filters
manage_filters_vega(trigger_id, g, s) ==
  IF trigger_id = NoTrigger THEN Returned(AllStore)
  ELSE IF trigger_id = "btn-reset" THEN Returned(AllStore)
  ELSE IF trigger_id = "chart-subcat"
    THEN Returned([sub |-> process_signal(g.sub, s.sub), state |-> s.state, cust |-> s.cust])
  ELSE IF trigger_id = "chart-state"
    THEN Returned([sub |-> s.sub, state |-> process_signal(g.state, s.state), cust |-> s.cust])
  ELSE IF trigger_id = "chart-customer"
    THEN Returned([sub |-> s.sub, state |-> s.state, cust |-> process_signal(g.cust, s.cust)])
  ELSE Returned(s)

\* the state callback of a variant, on the clickData (c) or signalData (g) of the charts
StateCallback(var, trigger_id, c, g, s) ==
  CASE var = "app" -> manage_state(trigger_id, c, s)
    [] var = "plotly_sm" -> manage_filters_plotly(trigger_id, c, s)
    [] var = "vega_sm" -> manage_filters_vega(trigger_id, g, s)

----------------------------------------------------------------------------
(* Callback 2: the view (update_view / update_visuals) *)

\* Top-N of the bar charts: head(10) / tail(10) in app.py, head(8) in the other two
TopNApp == 10

TopNSm == 8

\* A DataFrame derived from df is the sequence of the index labels of its rows:
\* boolean indexing keeps the labels and their order.
Labels(d) == [i \in 1..Len(d) |-> i]

\* Mutant of Where: the mask is taken from the rows of d by position, not by label.
Where_by_position(d, rows, col, val) ==
  LET at == SelectSeq([j \in 1..Len(rows) |-> j], LAMBDA j : d[j][col] = val)
  IN  [k \in 1..Len(at) |-> rows[at[k]]]

\* d[d[col] == val]
Where(d, rows, col, val) == SelectSeq(rows, LAMBDA i : d[i][col] = val)

\* one filter statement: if sel != "All": d = d[d[col] == sel]
FilterStep(d, rows, e, sel) == IF sel[e] # ALL THEN Where(d, rows, e, sel[e]) ELSE rows

\* Mutant of DffKpi: the customer filter is left out of the metrics.
DffKpi_no_cust(d, sel) ==
  LET a == Labels(d)
      b == IF sel.sub # ALL THEN Where(d, a, "sub", sel.sub) ELSE a
  IN  IF sel.state # ALL THEN Where(d, b, "state", sel.state) ELSE b

\* app.py, update_view: dff_kpi
DffKpi(d, sel) ==
  LET a == Labels(d)
      b == IF sel.sub # ALL THEN Where(d, a, "sub", sel.sub) ELSE a
      c == IF sel.state # ALL THEN Where(d, b, "state", sel.state) ELSE b
  IN  IF sel.cust # ALL THEN Where(d, c, "cust", sel.cust) ELSE c

\* app.py, update_view: df_sub
DfSub(d, sel) ==
  LET a == Labels(d)
      b == IF sel.state # ALL THEN Where(d, a, "state", sel.state) ELSE a
  IN  IF sel.cust # ALL THEN Where(d, b, "cust", sel.cust) ELSE b

\* app.py, update_view: df_state
DfState(d, sel) ==
  LET a == Labels(d)
      b == IF sel.sub # ALL THEN Where(d, a, "sub", sel.sub) ELSE a
  IN  IF sel.cust # ALL THEN Where(d, b, "cust", sel.cust) ELSE b

\* app.py, update_view: df_cust
DfCust(d, sel) ==
  LET a == Labels(d)
      b == IF sel.sub # ALL THEN Where(d, a, "sub", sel.sub) ELSE a
  IN  IF sel.state # ALL THEN Where(d, b, "state", sel.state) ELSE b

\* Mutant of filter_df: a selection of "All" is compared with the column as any other.
filter_df_no_all(d, sel, ignore_sub, ignore_state, ignore_cust) ==
  LET a == Labels(d)
      b == IF ~ignore_sub THEN Where(d, a, "sub", sel.sub) ELSE a
      c == IF ~ignore_state THEN Where(d, b, "state", sel.state) ELSE b
  IN  IF ~ignore_cust THEN Where(d, c, "cust", sel.cust) ELSE c

\* Mutant of filter_df: the ignore_* flags are not read, every chart is filtered by its
\* own dimension too.
filter_df_self(d, sel, ignore_sub, ignore_state, ignore_cust) ==
  LET a == Labels(d)
      b == IF sel.sub # ALL THEN Where(d, a, "sub", sel.sub) ELSE a
      c == IF sel.state # ALL THEN Where(d, b, "state", sel.state) ELSE b
  IN  IF sel.cust # ALL THEN Where(d, c, "cust", sel.cust) ELSE c

\* update_visuals.filter_df of the two state-management variants
filter_df(d, sel, ignore_sub, ignore_state, ignore_cust) ==
  LET a == Labels(d)
      b == IF ~ignore_sub /\ sel.sub # ALL THEN Where(d, a, "sub", sel.sub) ELSE a
      c == IF ~ignore_state /\ sel.state # ALL THEN Where(d, b, "state", sel.state) ELSE b
  IN  IF ~ignore_cust /\ sel.cust # ALL THEN Where(d, c, "cust", sel.cust) ELSE c

\* the DataFrame a target is computed from: "kpi" or a chart's dimension
Subset(var, d, sel, target) ==
  IF var = "app"
  THEN CASE target = "kpi" -> DffKpi(d, sel)
         [] target = "sub" -> DfSub(d, sel)
         [] target = "state" -> DfState(d, sel)
         [] target = "cust" -> DfCust(d, sel)
  ELSE filter_df(d, sel, target = "sub", target = "state", target = "cust")

RECURSIVE ColSum(_, _, _)
\* rows[col].sum()
ColSum(d, rows, col) ==
  IF rows = <<>> THEN 0 ELSE d[Head(rows)][col] + ColSum(d, Tail(rows), col)

\* Mutant of NUnique: the rows are counted, not the distinct order ids.
NUnique_rows(d, rows) == Len(rows)

\* rows['Order ID'].nunique()
NUnique(d, rows) == Cardinality({d[rows[j]].order : j \in 1..Len(rows)})

\* the four KPI strings, the same in the three variants
Kpis(d, rows) ==
  IF rows = <<>> THEN << <<"$", "0">>, <<"$", "0">>, <<"0">>, <<"0">> >>
  ELSE << FmtMoney(ColSum(d, rows, "amount")), FmtMoney(ColSum(d, rows, "profit")),
          FmtGrouped(ColSum(d, rows, "qty")), FmtGrouped(NUnique(d, rows)) >>

\* rows.groupby(gcol)[mcol].sum(): the sum of each group
GroupSums(d, rows, gcol, mcol) ==
  [g \in {d[rows[j]][gcol] : j \in 1..Len(rows)} |->
     ColSum(d, Where(d, rows, gcol, g), mcol)]

RECURSIVE Orders_descending(_, _, _)
\* Mutant of Orders: the sort is descending whatever "ascending" says.
Orders_descending(S, sums, asc) ==
  IF S = {} THEN {<<>>}
  ELSE LET first == {g \in S : \A h \in S : sums[g] >= sums[h]}
       IN  UNION {{<<g>> \o r : r \in Orders_descending(S \ {g}, sums, asc)} : g \in first}

RECURSIVE Orders(_, _, _)
\* sort_values(mcol, ascending=asc) of the groups in S: every order of them that is
\* sorted by sum.  sort_values sorts with kind='quicksort', which promises no order
\* among equal sums, so each order of the tied groups is an outcome.
Orders(S, sums, asc) ==
  IF S = {} THEN {<<>>}
  ELSE LET first == {g \in S : \A h \in S :
                        IF asc THEN sums[g] <= sums[h] ELSE sums[g] >= sums[h]}
       IN  UNION {{<<g>> \o r : r \in Orders(S \ {g}, sums, asc)} : g \in first}

\* How a build orders groups of equal sums.  sort_values sorts with kind='quicksort',
\* which promises no order among them, but the sort is a fixed algorithm: the same rows
\* come out in the same order in every call.  The groups reach it in the order of their
\* keys, as groupby sorts them; a build leaves tied groups in that order ("up") or turns
\* them round ("down").
TieRules == {"up", "down"}

\* The pieces of text the tables are written with, in the order Python compares str.
Alphabet ==
  << " ", "0", "1", "2", "3", "4", "5", "6", "7", "8", "9", "A", "Ann", "B", "Bob", "C",
     "CA", "Chairs", "D", "NY", "S", "TA", "TB", "Tables", "U" >>

PieceRank(t) == CHOOSE j \in 1..Len(Alphabet) : Alphabet[j] = t

\* a < b of two str, piece by piece
RECURSIVE StrLess(_, _)
StrLess(a, b) ==
  IF a = <<>> THEN b # <<>>
  ELSE IF b = <<>> THEN FALSE
  ELSE IF Head(a) = Head(b) THEN StrLess(Tail(a), Tail(b))
  ELSE PieceRank(Head(a)) < PieceRank(Head(b))

\* the place of the group g among the groups of column gcol, which groupby sorts by key
KeyRank(d, gcol, g) ==
  Cardinality({h \in {d[j][gcol] : j \in 1..Len(d)} : StrLess(h.s, g.s)})

\* some column of d has two groups whose sums over d are equal
CanTie(d) ==
  \E dm \in Dims : \E mcol \in {"amount", "profit"} :
    LET sums == GroupSums(d, [i \in 1..Len(d) |-> i], dm, mcol)
    IN  \E g, h \in DOMAIN sums : g # h /\ sums[g] = sums[h]

\* Mutant of Sorted: tied groups come out in any order, call by call.
Sorted_any(d, gcol, sums, asc) == Orders(DOMAIN sums, sums, asc)

\* sort_values(mcol, ascending=asc) of the grouped sums, as the build sorts them
Sorted(d, gcol, sums, asc) ==
  {o \in Orders(DOMAIN sums, sums, asc) :
     \A j, k \in 1..Len(o) :
       (j < k /\ sums[o[j]] = sums[o[k]]) =>
         IF ties = "up" THEN KeyRank(d, gcol, o[j]) < KeyRank(d, gcol, o[k])
         ELSE KeyRank(d, gcol, o[j]) > KeyRank(d, gcol, o[k])}

\* .head(n)
HeadN(sq, n) == SubSeq(sq, 1, IF Len(sq) < n THEN Len(sq) ELSE n)

\* .tail(n)
TailN(sq, n) == SubSeq(sq, IF Len(sq) < n THEN 1 ELSE Len(sq) - n + 1, Len(sq))

\* Mutant of NoDataFig: an empty DataFrame is drawn as a bar chart of no bars.
NoDataFig_empty_bars == [kind |-> "bar", rows |-> <<>>, colors |-> <<>>, init |-> NoneV]

\* the "No Data" figure
NoDataFig == [kind |-> "nodata", rows |-> <<>>, colors |-> <<>>, init |-> NoneV]

BarFig(keys, sums, cols, init_value) ==
  [kind |-> "bar", rows |-> [j \in 1..Len(keys) |-> [key |-> keys[j], val |-> sums[keys[j]]]],
   colors |-> cols, init |-> init_value]

\* app.py: build_interactive_bar.  The vertical charts take head(10) of the descending
\* sort, the horizontal one tail(10) of the ascending sort.
build_interactive_bar(d, df_in, gcol, mcol, selected_val, orientation) ==
  IF df_in = <<>> THEN {NoDataFig}
  ELSE LET sums == GroupSums(d, df_in, gcol, mcol)
           Colors(keys) ==
             [j \in 1..Len(keys) |->
                IF PyStr(selected_val) = ALL \/ PyStr(keys[j]) = PyStr(selected_val)
                THEN "active" ELSE "grey"]
       IN  { LET df_grouped == IF orientation = "v" THEN HeadN(o, TopNApp)
                                                    ELSE TailN(o, TopNApp)
             IN  BarFig(df_grouped, sums, Colors(df_grouped), NoneV)
             : o \in Sorted(d, gcol, sums, orientation # "v") }

\* app_cross_filter_plotly_state_management.py: update_visuals.build_bar_chart
build_bar_chart(d, df_in, gcol, mcol, selected_val, orientation) ==
  IF df_in = <<>> THEN {NoDataFig}
  ELSE LET sums == GroupSums(d, df_in, gcol, mcol)
           Colors(keys) ==
             [j \in 1..Len(keys) |->
                IF selected_val = ALL \/ PyStr(keys[j]) = PyStr(selected_val)
                THEN "active" ELSE "grey"]
       IN  { LET df_g == HeadN(o, TopNSm)
             IN  BarFig(df_g, sums, Colors(df_g), NoneV)
             : o \in Sorted(d, gcol, sums, orientation = "h") }

\* app_cross_filter_vega_state_management.py.py: update_visuals.build_altair_chart
build_altair_chart(d, df_in, gcol, mcol, selected_val, orientation) ==
  IF df_in = <<>> THEN {NoDataFig}
  ELSE LET sums == GroupSums(d, df_in, gcol, mcol)
           Colors(keys) ==
             [j \in 1..Len(keys) |->
                IF selected_val = ALL \/ keys[j] = selected_val THEN "active" ELSE "grey"]
       IN  { LET df_g == HeadN(o, TopNSm)
             IN  BarFig(df_g, sums, Colors(df_g),
                        IF selected_val # ALL THEN selected_val ELSE NoneV)
             : o \in Sorted(d, gcol, sums, FALSE) }

\* Mutant of Figures: the builders have no branch for an empty DataFrame and raise on
\* it, returning no figure.
Figures_raises(var, d, df_in, gcol, mcol, selected_val, orientation) ==
  IF df_in = <<>> THEN {}
  ELSE CASE var = "app" ->
              build_interactive_bar(d, df_in, gcol, mcol, selected_val, orientation)
         [] var = "plotly_sm" ->
              build_bar_chart(d, df_in, gcol, mcol, selected_val, orientation)
         [] var = "vega_sm" ->
              build_altair_chart(d, df_in, gcol, mcol, selected_val, orientation)

\* the figures a chart's builder may return for the DataFrame df_in
Figures(var, d, df_in, gcol, mcol, selected_val, orientation) ==
  CASE var = "app" -> build_interactive_bar(d, df_in, gcol, mcol, selected_val, orientation)
    [] var = "plotly_sm" -> build_bar_chart(d, df_in, gcol, mcol, selected_val, orientation)
    [] var = "vega_sm" -> build_altair_chart(d, df_in, gcol, mcol, selected_val, orientation)

\* Mutant of Measure: the sub-category chart sums Amount as the other two do.
Measure_all_amount(dm) == "amount"

\* the measure and the orientation of each chart
Measure(dm) == IF dm = "sub" THEN "profit" ELSE "amount"

Orientation(dm) == IF dm = "sub" THEN "h" ELSE "v"

Unrendered ==
  [rendered |-> FALSE, data |-> [t \in {"kpi"} \cup Dims |-> <<>>],
   kpis |-> <<>>, fig |-> [dm \in Dims |-> NoDataFig], status |-> AllStore]

\* Mutant of GlobalAfter: the filters are applied to the global df itself.
GlobalAfter_filtered(var, d, sel) == [j \in 1..Len(Subset(var, d, sel, "kpi")) |-> d[Subset(var, d, sel, "kpi")[j]]]

\* the global df after update_view / update_visuals ran on the stores sel: the callback
\* filters copies (dff = df.copy(), d = df.copy()) and assigns to no part of df
GlobalAfter(var, d, sel) == d

\* Mutant of update_view: the metrics are computed with the sub-category that the view
\* showed before, the charts with the new one.
update_view_mixed(var, d, sel) ==
  LET data == [t \in {"kpi"} \cup Dims |->
                 Subset(var, d, IF t = "kpi" THEN [sel EXCEPT !.sub = view.status.sub] ELSE sel, t)]
      figs(dm) == Figures(var, d, data[dm], dm, Measure(dm), sel[dm], Orientation(dm))
  IN  { [rendered |-> TRUE, data |-> data, kpis |-> Kpis(d, data.kpi),
         fig |-> [sub |-> fs, state |-> ft, cust |-> fc], status |-> sel]
        : fs \in figs("sub"), ft \in figs("state"), fc \in figs("cust") }

\* update_view / update_visuals: the render payloads it may return for the stores sel,
\* with the DataFrames it computed them from (data)
update_view(var, d, sel) ==
  LET data == [t \in {"kpi"} \cup Dims |-> Subset(var, d, sel, t)]
      figs(dm) == Figures(var, d, data[dm], dm, Measure(dm), sel[dm], Orientation(dm))
  IN  { [rendered |-> TRUE, data |-> data, kpis |-> Kpis(d, data.kpi),
         fig |-> [sub |-> fs, state |-> ft, cust |-> fc], status |-> sel]
        : fs \in figs("sub"), ft \in figs("state"), fc \in figs("cust") }

----------------------------------------------------------------------------
(* The browser: events, and the two callbacks run on them *)

\* how many blanks a stray clicked value may end with
MaxPad == 1

Pad(v, n) == Txt(v.s \o [j \in 1..n |-> " "])

\* the values of the bars chart dm displays
Displayed(dm) == {view.fig[dm].rows[j].key : j \in 1..Len(view.fig[dm].rows)}

\* the bars chart dm displays
Bars(dm) == {view.fig[dm].rows[j] : j \in 1..Len(view.fig[dm].rows)}

\* clicked values that are not a displayed bar's: the string "7", which is a value of no
\* record, the same followed by blanks, the number 7, and the empty string
StrayValues ==
  {T("7"), Num(<<"7">>), Txt(<<>>)} \cup {Pad(T("7"), n) : n \in 1..MaxPad}

\* the clickData of a click on the bar of chart dm: the category is on the y axis of the
\* horizontal chart and on the x axis of the vertical ones, the bar's sum on the other
BarPoint(dm, key, val) ==
  IF Orientation(dm) = "h" THEN ClickPoint(Num(DecStr(val)), key)
  ELSE ClickPoint(key, Num(DecStr(val)))

\* Mutant of RunStateCallback: the stores are written and no render is asked for.
RunStateCallback_no_render(op, dm, trigger_id, c, g) ==
  LET r == StateCallback(variant, trigger_id, c, g, store)
  IN  /\ store' = IF r.status = "ok" THEN r.store ELSE store
      /\ dirty' = dirty
      /\ refire' = IF r.status = "ok" /\ variant # "vega_sm" /\ dm \in Dims
                        /\ r.clicks[dm] # c[dm]
                   THEN dm ELSE "none"
      /\ last' = [op |-> op, dim |-> dm, click |-> IF dm \in Dims THEN c[dm] ELSE ClickNone,
                  signal |-> IF dm \in Dims THEN g[dm] ELSE SigNone,
                  outcome |-> r.status]
      /\ UNCHANGED <<variant, ties, df, loaded, view, net>>

\* one run of the state callback of chart dm (or of the button, or at page load), and
\* what the browser does with its outputs: the stores are written and, their callback
\* being update_view, the view is to be rendered; a clickData that the outputs turn
\* from a value to None triggers the state callback again
RunStateCallback(op, dm, trigger_id, c, g) ==
  LET r == StateCallback(variant, trigger_id, c, g, store)
  IN  /\ store' = IF r.status = "ok" THEN r.store ELSE store
      /\ dirty' = (dirty \/ r.status = "ok")
      /\ refire' = IF r.status = "ok" /\ variant # "vega_sm" /\ dm \in Dims
                        /\ r.clicks[dm] # c[dm]
                   THEN dm ELSE "none"
      /\ last' = [op |-> op, dim |-> dm, click |-> IF dm \in Dims THEN c[dm] ELSE ClickNone,
                  signal |-> IF dm \in Dims THEN g[dm] ELSE SigNone,
                  outcome |-> r.status]
      /\ UNCHANGED <<variant, ties, df, loaded, view, net>>

\* the requests of the state callback that the browser has sent and whose responses it
\* has not had: none while the events are served one at a time
NoRequests == [reqs |-> {}, issued |-> 0, log |-> <<>>]

OnlyClick(dm, c) == [e \in Dims |-> IF e = dm THEN c ELSE ClickNone]

OnlySignal(dm, g) == [e \in Dims |-> IF e = dm THEN g ELSE SigNone]

\* the events are served one at a time: the next is taken when the last is rendered
Idle == loaded /\ ~dirty /\ refire = "none"

\* the program started: the module was imported without an exception
Started == ~(last.op = "init" /\ last.outcome = "raise")

Init ==
  /\ variant \in Variants
  /\ \E files \in FileStates : \E raw \in RawTables :
       LET r == load_data(variant, files, raw)
       IN  /\ df = r.rows
           /\ last = [op |-> "init", dim |-> "none", click |-> ClickNone,
                      signal |-> SigNone, outcome |-> r.status]
  /\ ties \in IF CanTie(df) THEN TieRules ELSE {"up"}
  /\ loaded = FALSE
  /\ store = AllStore
  /\ view = Unrendered
  /\ dirty = FALSE
  /\ refire = "none"
  /\ net = NoRequests

\* the page is loaded: the state callback runs with nothing triggered
PageLoad ==
  /\ Started
  /\ ~loaded
  /\ loaded' = TRUE
  /\ LET r == StateCallback(variant, NoTrigger, NoClicks, NoSignals, store)
     IN  /\ store' = r.store
         /\ dirty' = TRUE
         /\ last' = [op |-> "load", dim |-> "none", click |-> ClickNone, signal |-> SigNone,
                     outcome |-> r.status]
  /\ UNCHANGED <<variant, ties, df, view, refire, net>>

\* the reset button is clicked
Reset ==
  /\ Idle
  /\ RunStateCallback("reset", "none", ResetId(variant), NoClicks, NoSignals)

\* a displayed bar of chart dm is clicked
ClickBar(dm) ==
  /\ Idle
  /\ \E b \in Bars(dm) :
       RunStateCallback("click", dm, ChartId(dm),
                        IF variant = "vega_sm" THEN NoClicks
                        ELSE OnlyClick(dm, BarPoint(dm, b.key, b.val)),
                        IF variant = "vega_sm" THEN OnlySignal(dm, Sig("sel", b.key))
                        ELSE NoSignals)

\* the Vega chart dm reports an empty selection (a click beside the bars)
ClickBlank(dm) ==
  /\ Idle
  /\ variant = "vega_sm"
  /\ RunStateCallback("blank", dm, ChartId(dm), NoClicks, OnlySignal(dm, Sig("emptysel", NoneV)))

\* the transport delivers, for chart dm, an event that is no click on a displayed bar
StrayEvent(dm) ==
  /\ Idle
  /\ IF variant = "vega_sm"
     THEN \E g \in {Sig("nosignal", NoneV), Sig("emptylist", NoneV)}
                     \cup {Sig("wrongkey", T("7"))} \cup {Sig("sel", v) : v \in StrayValues} :
            RunStateCallback("stray", dm, ChartId(dm), NoClicks, OnlySignal(dm, g))
     ELSE \E c \in {ClickEmpty, ClickNoPoints}
                     \cup {BarPoint(dm, v, 0) : v \in StrayValues} :
            RunStateCallback("stray", dm, ChartId(dm), OnlyClick(dm, c), NoSignals)

\* the clickData of chart dm was reset to None by the state callback, which runs on it
Refire ==
  /\ loaded
  /\ refire \in Dims
  /\ RunStateCallback("refire", refire, ChartId(refire), NoClicks, NoSignals)

\* the stores were written: update_view / update_visuals renders them
UpdateView ==
  /\ loaded
  /\ dirty
  /\ view' \in update_view(variant, df, store)
  /\ df' = GlobalAfter(variant, df, store)
  /\ dirty' = FALSE
  /\ UNCHANGED <<variant, ties, loaded, store, refire, last, net>>

Next ==
  \/ PageLoad
  \/ Reset
  \/ \E dm \in Dims : ClickBar(dm)
  \/ \E dm \in Dims : ClickBlank(dm)
  \/ \E dm \in Dims : StrayEvent(dm)
  \/ Refire
  \/ UpdateView

Spec == Init /\ [][Next]_vars

\* the user's interactions only: the page load, the reset button and clicks on
\* displayed bars, with the callbacks they trigger
NextUser ==
  \/ PageLoad
  \/ Reset
  \/ \E dm \in Dims : ClickBar(dm)
  \/ Refire
  \/ UpdateView

SpecUser == Init /\ [][NextUser]_vars

\* UpdateView can be taken: stores were written and not rendered (update_view has a
\* payload for every Filter State)
RenderPending == loaded /\ dirty

\* the same with the browser at work: a callback whose input was written is run (the
\* renderer dispatches it without waiting for the user).  For the render this is
\* WF_vars(UpdateView) written out: the step is enabled exactly while a render is
\* pending, and taking it ends that.
SpecUserFair == SpecUser /\ WF_vars(Refire) /\ []<>~RenderPending

----------------------------------------------------------------------------
(* The Vega chart redrawn with an initial selection *)

\* the Vega chart dm was redrawn from a spec whose selection parameter has the initial
\* value v (value=[{group_col: selected_val}]), and its signalData is written again:
\* with the selection v it was given, or with an empty selection
ReEmit(dm) ==
  /\ Idle
  /\ variant = "vega_sm"
  /\ view.fig[dm].kind = "bar"
  /\ view.fig[dm].init # NoneV
  /\ \E g \in {Sig("sel", view.fig[dm].init), Sig("emptysel", NoneV)} :
       RunStateCallback("reemit", dm, ChartId(dm), NoClicks, OnlySignal(dm, g))

NextRedraw ==
  \/ PageLoad
  \/ Reset
  \/ \E dm \in Dims : ClickBar(dm)
  \/ \E dm \in Dims : ReEmit(dm)
  \/ Refire
  \/ UpdateView

SpecRedraw == Init /\ [][NextRedraw]_vars

----------------------------------------------------------------------------
(* Clicks in rapid succession: requests of the state callback in flight *)

\* how many clicks a behaviour has, and how many requests are in flight at a time
MaxIssued == 2

MaxInFlight == 2

\* the request of the state callback for a click on the bar b of chart dm: the inputs
\* and the State values (the three stores) are those of the browser when it is sent
Request(dm, b) ==
  [seq |-> net.issued + 1, dim |-> dm,
   c |-> IF variant = "vega_sm" THEN NoClicks ELSE OnlyClick(dm, BarPoint(dm, b.key, b.val)),
   g |-> IF variant = "vega_sm" THEN OnlySignal(dm, Sig("sel", b.key)) ELSE NoSignals,
   state |-> store]

\* a displayed bar of chart dm is clicked and the request is sent, while the responses
\* of earlier clicks may be outstanding
Send(dm) ==
  /\ loaded
  /\ view.rendered
  /\ net.issued < MaxIssued
  /\ Cardinality(net.reqs) < MaxInFlight
  /\ \E b \in Bars(dm) :
       net' = [net EXCEPT !.reqs = @ \cup {Request(dm, b)}, !.issued = @ + 1]
  /\ UNCHANGED <<variant, ties, df, loaded, store, view, dirty, refire, last>>

\* the response of a request arrives, in any order, and its outputs are written: the
\* callback ran on the State values the request carried
Deliver ==
  \E r \in net.reqs :
    LET res == StateCallback(variant, ChartId(r.dim), r.c, r.g, r.state)
    IN  /\ store' = IF res.status = "ok" THEN res.store ELSE store
        /\ dirty' = (dirty \/ res.status = "ok")
        /\ refire' = IF res.status = "ok" /\ variant # "vega_sm" THEN r.dim ELSE "none"
        /\ last' = [op |-> "deliver", dim |-> r.dim, click |-> r.c[r.dim],
                    signal |-> r.g[r.dim], outcome |-> res.status]
        /\ net' = [net EXCEPT !.reqs = @ \ {r},
                              !.log = Append(@, [seq |-> r.seq, fresh |-> r.state = store])]
        /\ UNCHANGED <<variant, ties, df, loaded, view>>

\* the response of a request that a later request has superseded is discarded
Drop ==
  /\ \E r \in net.reqs :
       /\ \E q \in net.reqs : q.seq > r.seq
       /\ net' = [net EXCEPT !.reqs = @ \ {r}]
  /\ UNCHANGED <<variant, ties, df, loaded, store, view, dirty, refire, last>>

NextRace ==
  \/ PageLoad
  \/ \E dm \in Dims : Send(dm)
  \/ Deliver
  \/ Drop
  \/ Refire
  \/ UpdateView

SpecRace == Init /\ [][NextRace]_vars

----------------------------------------------------------------------------
(* app_cross_filter_vega.py: one callback, no stores *)

\* This variant keeps no Filter State: its one callback, update_dashboard, computes the
\* KPIs and the charts from the signal that triggered it.  It is modelled with the
\* same variables: view holds the KPIs and the three chart specs on display, with the
\* DataFrame each was computed from (data) and the one filter of the run (status); the
\* stores, dirty, refire and net have no part in it.
Single == "vega_single"

\* df_global: the merged table with Sub-Category (and Category) cleaned
LoadGlobal(raw) == [i \in DOMAIN raw |-> [raw[i] EXCEPT !.sub = CleanCol(@)]]

\* the groups in S in the order of their keys, as groupby(...).sum().reset_index()
\* returns them
KeyOrder(S) ==
  [j \in 1..Cardinality(S) |->
     CHOOSE g \in S : Cardinality({h \in S : StrLess(h.s, g.s)}) = j - 1]

\* .nlargest(n, col): the n groups of largest sum in descending order; groups of equal
\* sums stay in the order they have in the frame (keep='first')
NLargest(sums, n) ==
  LET S == DOMAIN sums
      ko == KeyOrder(S)
      at(g) == CHOOSE j \in 1..Len(ko) : ko[j] = g
      o == CHOOSE q \in Orders(S, sums, FALSE) :
             \A j, k \in 1..Len(q) :
               (j < k /\ sums[q[j]] = sums[q[k]]) => at(q[j]) < at(q[k])
  IN  HeadN(o, n)

\* Top-N of the state and customer charts: nlargest(10, 'Amount')
TopNSingle == 10

\* d_cat / d_state / d_cust of update_dashboard with create_altair_chart applied: the
\* chart spec of dimension dm for the frame dff
create_altair_chart(d, dff, dm) ==
  LET sums == GroupSums(d, dff, dm, Measure(dm))
      keys == IF dm = "sub" THEN KeyOrder(DOMAIN sums) ELSE NLargest(sums, TopNSingle)
  IN  BarFig(keys, sums, [j \in 1..Len(keys) |-> "active"], NoneV)

\* what update_dashboard does with the signalData g of the chart that triggered it:
\*   "skip"    no branch is taken, or the signal has no selection in it
\*   "filter"  the frame is filtered by the selected value
\*   "raise"   signal_content[field][0] of an empty list: IndexError
SignalBranch(g) ==
  CASE g.t \in {"none", "nosignal", "emptysel", "wrongkey"} -> "skip"
    [] g.t = "emptylist" -> "raise"
    [] g.t = "sel" -> "filter"

\* update_dashboard, for a run that returns: the KPIs and the chart specs on display
\* after it, shown being those before it (an output of no_update leaves the chart)
update_dashboard(triggered_id, g, d, shown) ==
  IF triggered_id \in {NoTrigger, "btn-reset"}
  THEN [rendered |-> TRUE, data |-> [t \in {"kpi"} \cup Dims |-> Labels(d)],
        kpis |-> Kpis(d, Labels(d)),
        fig |-> [dm \in Dims |-> create_altair_chart(d, Labels(d), dm)],
        status |-> AllStore]
  ELSE IF SignalBranch(g) = "skip"
  THEN [shown EXCEPT !.rendered = TRUE, !.data.kpi = Labels(d),
                     !.kpis = Kpis(d, Labels(d)), !.status = AllStore]
  ELSE LET trig == CHOOSE dm \in Dims : ChartId(dm) = triggered_id
           dff == Where(d, Labels(d), trig, g.v)
       IN  [rendered |-> TRUE,
            data |-> [t \in {"kpi"} \cup Dims |-> IF t = trig THEN shown.data[t] ELSE dff],
            kpis |-> Kpis(d, dff),
            fig |-> [dm \in Dims |-> IF dm = trig THEN shown.fig[dm]
                                    ELSE create_altair_chart(d, dff, dm)],
            status |-> [AllStore EXCEPT ![trig] = g.v]]

\* one run of update_dashboard and what the browser shows after it; a run that raises
\* changes nothing on the page
RunDashboard(op, dm, triggered_id, g) ==
  /\ view' = IF dm \in Dims /\ SignalBranch(g) = "raise" THEN view
             ELSE update_dashboard(triggered_id, g, df, view)
  /\ last' = [op |-> op, dim |-> dm, click |-> ClickNone, signal |-> g,
              outcome |-> IF dm \in Dims /\ SignalBranch(g) = "raise" THEN "raise" ELSE "ok"]
  /\ UNCHANGED <<variant, ties, df, store, dirty, refire, net>>

InitSingle ==
  /\ variant = Single
  /\ \E raw \in RawTables : df = LoadGlobal(raw)
  /\ ties = "up"
  /\ loaded = FALSE
  /\ store = AllStore
  /\ view = Unrendered
  /\ dirty = FALSE
  /\ refire = "none"
  /\ last = [op |-> "init", dim |-> "none", click |-> ClickNone, signal |-> SigNone,
             outcome |-> "ok"]
  /\ net = NoRequests

\* the page is loaded: the callback runs with nothing triggered
SinglePageLoad ==
  /\ ~loaded
  /\ loaded' = TRUE
  /\ RunDashboard("load", "none", NoTrigger, SigNone)

\* the reset button is clicked
SingleReset ==
  /\ loaded
  /\ UNCHANGED loaded
  /\ RunDashboard("reset", "none", "btn-reset", SigNone)

\* a displayed bar of chart dm is clicked: the chart's selection signal carries its value
SingleSelect(dm) ==
  /\ loaded
  /\ UNCHANGED loaded
  /\ \E b \in Bars(dm) : RunDashboard("click", dm, ChartId(dm), Sig("sel", b.key))

\* the selection of chart dm is taken off (a click on the selected bar, or beside the
\* bars): the signal carries an empty selection, or an empty list of values
SingleDeselect(dm) ==
  /\ loaded
  /\ UNCHANGED loaded
  /\ \E g \in {Sig("emptysel", NoneV), Sig("emptylist", NoneV)} :
       RunDashboard("blank", dm, ChartId(dm), g)

NextSingle ==
  \/ SinglePageLoad
  \/ SingleReset
  \/ \E dm \in Dims : SingleSelect(dm)
  \/ \E dm \in Dims : SingleDeselect(dm)

SpecSingle == InitSingle /\ [][NextSingle]_vars

----------------------------------------------------------------------------
(* Properties of the Filter State transitions *)

\* a step that serves one chart event (a click on a bar, a stray event, an empty Vega
\* selection) of chart dm: events are taken in idle states only
ChartStep(dm) == Idle /\ last'.op \in {"click", "stray", "blank"} /\ last'.dim = dm

\* the event l carries a clicked value
CarriesValue(l) == IF variant = "vega_sm" THEN l.signal.t = "sel" ELSE l.click.t = "point"

\* the clicked value of the event l of chart l.dim
ClickedValue(l) ==
  IF variant = "vega_sm" THEN l.signal.v
  ELSE IF Orientation(l.dim) = "h" THEN l.click.y ELSE l.click.x

\* a string that is not empty and has no blank at either end
Canonical(v) == v.k = "str" /\ v.s # <<>> /\ Head(v.s) # " " /\ v.s[Len(v.s)] # " "

\* the toggle rule of the specification
Toggled(current, v) == IF current # ALL /\ v = current THEN ALL ELSE v

\* C1, as stated: a click on chart d with any non-empty clicked value v sets d to All
\* when s[d] # All and v = s[d], and to v in every other case.
C1_AnyValue ==
  [][\A dm \in Dims :
       (ChartStep(dm) /\ CarriesValue(last') /\ ClickedValue(last') # Txt(<<>>))
         => store'[dm] = Toggled(store[dm], ClickedValue(last'))]_vars

\* C1, amended: when s[d] is a string and the clicked value v is a non-empty string
\* with no surrounding blanks, a click on chart d sets d to All when s[d] # All and
\* v = s[d], and to v in every other case.
C1_Toggle ==
  [][\A dm \in Dims :
       (ChartStep(dm) /\ CarriesValue(last') /\ Canonical(ClickedValue(last'))
          /\ store[dm].k = "str")
         => store'[dm] = Toggled(store[dm], ClickedValue(last'))]_vars

\* C1 witness: a click on a displayed bar has deselected its dimension.
C1_Witness ==
  /\ last.op = "click"
  /\ CarriesValue(last)
  /\ Canonical(ClickedValue(last))
  /\ store[last.dim] = ALL

\* C2: a chart event of dimension d leaves the stored selections of the two other
\* dimensions as they were.
C2_OthersKept ==
  [][\A dm \in Dims :
       ChartStep(dm) => \A e \in Dims \ {dm} : store'[e] = store[e]]_vars

\* C2 witness: after a click that selected a value, another dimension still holds the
\* selection an earlier click made (the selections accumulate).
C2_Witness ==
  /\ last.op = "click"
  /\ store[last.dim] # ALL
  /\ \E e \in Dims \ {last.dim} : store[e] # ALL

\* C3: after a reset the three dimensions are All, and the callback returned
\* normally.
C3_ResetAll == last.op = "reset" => (store = AllStore /\ last.outcome = "ok")

\* C3 witness: a reset has cleared the stores while the view still shows the
\* selection that was reset.
C3_Witness ==
  /\ last.op = "reset"
  /\ store = AllStore
  /\ view.rendered
  /\ view.status # AllStore

\* the chart event l carries no clicked value (a null or empty clickData, an empty
\* selection or an empty list of selected values) or carries the empty string
EmptyEvent(l) ==
  \/ IF variant = "vega_sm" THEN l.signal.t \in {"none", "emptysel", "emptylist"}
     ELSE l.click.t \in {"none", "empty", "nopoints"}
  \/ CarriesValue(l) /\ ClickedValue(l) = Txt(<<>>)

\* C4: a chart event that carries an empty or null clicked value leaves the three
\* dimensions unchanged.
C4_EmptyKept ==
  [][\A dm \in Dims : (ChartStep(dm) /\ EmptyEvent(last')) => store' = store]_vars

----------------------------------------------------------------------------
(* Properties of the view *)

\* the row i of the Dataset passes the filter of dimension e of the stores sel
Passes(i, e, sel) == sel[e] = ALL \/ df[i][e] = sel[e]

\* the rows of the Dataset, in order, that pass the filters of the dimensions in E
Restricted(E, sel) == SelectSeq(Labels(df), LAMBDA i : \A e \in E : Passes(i, e, sel))

\* C5: the subset chart d is aggregated from is the Dataset restricted by the filters
\* of the two other dimensions, and by nothing else.
C5_SelfExclusion ==
  view.rendered => \A dm \in Dims : view.data[dm] = Restricted(Dims \ {dm}, view.status)

\* C5 witness: a chart whose dimension has a selection is computed from rows of other
\* values of that dimension too.
C5_Witness ==
  /\ view.rendered
  /\ \E dm \in Dims :
       /\ view.status[dm] # ALL
       /\ \E j \in 1..Len(view.data[dm]) : df[view.data[dm][j]][dm] # view.status[dm]
       /\ \E j \in 1..Len(view.data[dm]) : df[view.data[dm][j]][dm] = view.status[dm]

\* C6: the subset the metrics are computed from is the Dataset restricted by the three
\* filters together.
C6_FullIntersection == view.rendered => view.data.kpi = Restricted(Dims, view.status)

\* C6 witness: the metrics are computed under selections in the three dimensions, from
\* some rows and not all.
C6_Witness ==
  /\ view.rendered
  /\ \A dm \in Dims : view.status[dm] # ALL
  /\ view.data.kpi # <<>>
  /\ Len(view.data.kpi) < Len(df)

RECURSIVE Total(_, _)
\* the sum of the column col over the set I of rows of the Dataset
Total(I, col) ==
  IF I = {} THEN 0
  ELSE LET i == CHOOSE j \in I : TRUE IN df[i][col] + Total(I \ {i}, col)

\* the rows the metrics of the view are computed from
KpiRows == {view.data.kpi[j] : j \in 1..Len(view.data.kpi)}

\* C7: the metrics are the sum of amount, of profit and of quantity and the number of
\* distinct order ids of the subset; on the fixture, 350/65/6/2 without a filter and
\* 150/25/3/1 with state = "CA".
C7_Metrics ==
  view.rendered =>
    /\ view.kpis = << FmtMoney(Total(KpiRows, "amount")), FmtMoney(Total(KpiRows, "profit")),
                      FmtGrouped(Total(KpiRows, "qty")),
                      FmtGrouped(Cardinality({df[i].order : i \in KpiRows})) >>
    /\ (df = Fixture /\ view.status = AllStore)
         => view.kpis = << <<"$", "3", "5", "0">>, <<"$", "6", "5">>, <<"6">>, <<"2">> >>
    /\ (df = Fixture /\ view.status = [AllStore EXCEPT !.state = T("CA")])
         => view.kpis = << <<"$", "1", "5", "0">>, <<"$", "2", "5">>, <<"3">>, <<"1">> >>

\* C7 witness: the fixture is rendered with state = "CA", where one order has two rows.
C7_Witness ==
  /\ view.rendered
  /\ df = Fixture
  /\ view.status = [AllStore EXCEPT !.state = T("CA")]

ZeroKpis == << <<"$", "0">>, <<"$", "0">>, <<"0">>, <<"0">> >>

\* the stores sel hold, for dimension dm, a value that no record has
NoRecord(dm, sel) == sel[dm] # ALL /\ \A i \in 1..Len(df) : df[i][dm] # sel[dm]

\* C8, as stated: when the filters match no record, the four metrics are zero and
\* every chart is a "No Data" figure.
C8_AllEmpty ==
  (view.rendered /\ view.data.kpi = <<>>) =>
    (view.kpis = ZeroKpis /\ \A dm \in Dims : view.fig[dm].kind = "nodata")

\* C8, amended: when the filters match no record, the four metrics are zero and every
\* chart whose subset (the Dataset under the two other filters) is empty is a "No Data"
\* figure, the other charts are bar charts; so a value of no record in one dimension
\* empties the two other charts, and not its own.
C8_EmptySubsets ==
  (view.rendered /\ view.data.kpi = <<>>) =>
    /\ view.kpis = ZeroKpis
    /\ \A dm \in Dims : (view.fig[dm].kind = "nodata") <=> (view.data[dm] = <<>>)
    /\ \A dm \in Dims : view.data[dm] # <<>> => view.fig[dm].rows # <<>>
    /\ \A dm \in Dims :
         NoRecord(dm, view.status) => \A e \in Dims \ {dm} : view.fig[e].kind = "nodata"

\* C8 witness: the state filter holds a value of no record and nothing else is
\* selected; the state chart still shows bars.
C8_Witness ==
  /\ view.rendered
  /\ view.status = [AllStore EXCEPT !.state = T("7")]
  /\ view.kpis = ZeroKpis
  /\ view.fig.state.kind = "bar"
  /\ view.fig.sub.kind = "nodata"

\* the chart size of the variant
TopN == IF variant = "app" THEN TopNApp ELSE TopNSm

\* the groups chart dm shows
Shown(dm) == {view.fig[dm].rows[j].key : j \in 1..Len(view.fig[dm].rows)}

\* the sums of the groups of chart dm's subset
SumsOf(dm) == GroupSums(df, view.data[dm], dm, Measure(dm))

\* C9: the groups a chart shows are the N groups of the largest sums: all of them when
\* there are at most N, N of them otherwise, and no omitted group has a strictly
\* larger sum than a shown one.
C9_TopN ==
  view.rendered =>
    \A dm \in Dims :
      LET sums == SumsOf(dm)
          n == Cardinality(DOMAIN sums)
      IN  /\ Shown(dm) \subseteq DOMAIN sums
          /\ Cardinality(Shown(dm)) = (IF n < TopN THEN n ELSE TopN)
          /\ \A g \in DOMAIN sums \ Shown(dm) : \A h \in Shown(dm) : sums[g] <= sums[h]

\* the rows of chart dm are in descending (ascending) order of their sums
Descending(dm) ==
  \A j \in 1..(Len(view.fig[dm].rows) - 1) :
    view.fig[dm].rows[j].val >= view.fig[dm].rows[j + 1].val

Ascending(dm) ==
  \A j \in 1..(Len(view.fig[dm].rows) - 1) :
    view.fig[dm].rows[j].val <= view.fig[dm].rows[j + 1].val

\* C10, as stated: the rows of every chart are in descending order of their sums.
C10_AllDescending == view.rendered => \A dm \in Dims : Descending(dm)

\* C10, amended: the rows of the state and customer charts, and of the three charts of
\* the Vega variant, are in descending order of their sums, each row holding its
\* group's sum; the rows of the horizontal sub-category chart of the two Plotly
\* variants are in ascending order.
C10_Ordered ==
  view.rendered =>
    \A dm \in Dims :
      /\ \A j \in 1..Len(view.fig[dm].rows) :
           view.fig[dm].rows[j].val = SumsOf(dm)[view.fig[dm].rows[j].key]
      /\ IF dm = "sub" /\ variant \in {"app", "plotly_sm"} THEN Ascending(dm)
         ELSE Descending(dm)

\* C10 witness: the sub-category chart of app.py shows groups of different sums,
\* and so does its state chart.
C10_Witness ==
  /\ view.rendered
  /\ variant = "app"
  /\ \E j \in 1..(Len(view.fig.sub.rows) - 1) :
       view.fig.sub.rows[j].val < view.fig.sub.rows[j + 1].val
  /\ \E j \in 1..(Len(view.fig.state.rows) - 1) :
       view.fig.state.rows[j].val > view.fig.state.rows[j + 1].val

----------------------------------------------------------------------------
(* Properties of the ranking of tied groups *)

\* the place in chart dm's subset of the first row of group g
FirstSeen(dm, g) ==
  CHOOSE j \in 1..Len(view.data[dm]) :
    /\ df[view.data[dm][j]][dm] = g
    /\ \A k \in 1..(j - 1) : df[view.data[dm][k]][dm] # g

\* chart dm's rows are returned lowest first (the horizontal chart of the Plotly variants)
LowestFirst(dm) == dm = "sub" /\ variant \in {"app", "plotly_sm"}

\* C11: of two groups of equal sums, the one met first in the subset is ranked higher
\* (it comes first in a descending chart, last in an ascending one), and a group left
\* out by the truncation was not met before a shown group of the same sum.
C11_FirstSeen ==
  view.rendered =>
    \A dm \in Dims :
      LET rows == view.fig[dm].rows
          sums == SumsOf(dm)
      IN  /\ \A j, k \in 1..Len(rows) :
               (j < k /\ rows[j].val = rows[k].val) =>
                 IF LowestFirst(dm)
                 THEN FirstSeen(dm, rows[j].key) > FirstSeen(dm, rows[k].key)
                 ELSE FirstSeen(dm, rows[j].key) < FirstSeen(dm, rows[k].key)
          /\ \A g \in DOMAIN sums \ Shown(dm) : \A h \in Shown(dm) :
               sums[g] = sums[h] => FirstSeen(dm, h) < FirstSeen(dm, g)

----------------------------------------------------------------------------
(* Algebraic properties of the transitions and of the filters *)

\* the values a click on chart dm may carry: the values of the Dataset's column and the
\* stray ones
ClickValues(dm) == StrayValues \cup {df[i][dm] : i \in 1..Len(df)}

\* the state callback run on a click on the value v of chart dm, in the Filter State s
OneClick(dm, v, s) ==
  IF variant = "vega_sm"
  THEN StateCallback(variant, ChartId(dm), NoClicks, OnlySignal(dm, Sig("sel", v)), s)
  ELSE StateCallback(variant, ChartId(dm), OnlyClick(dm, BarPoint(dm, v, 0)), NoSignals, s)

\* C12: from every reachable Filter State with s[d] = All, two consecutive clicks on the
\* same value v of chart d return normally and give back s: d is All again and the two
\* other dimensions are as they were.
C12_TwoClicks ==
  loaded =>
    \A dm \in Dims : \A v \in ClickValues(dm) :
      store[dm] = ALL =>
        LET first == OneClick(dm, v, store)
            second == OneClick(dm, v, first.store)
        IN  first.status = "ok" /\ second.status = "ok" /\ second.store = store

\* C12 witness: a click on a bar has set its dimension back to All while the view still
\* shows the selection of that very value, made from All by the click before, and
\* another dimension holds a selection.
C12_Witness ==
  /\ last.op = "click"
  /\ store[last.dim] = ALL
  /\ view.rendered
  /\ view.status[last.dim] = ClickedValue(last)
  /\ \E e \in Dims \ {last.dim} : store[e] # ALL /\ view.status[e] = store[e]

\* the orders in which the dimensions of S can be taken
Perms(S) == {p \in [1..Cardinality(S) -> S] : \A a \in S : \E j \in DOMAIN p : p[j] = a}

RECURSIVE Chain(_, _, _)
\* the filter statements of the dimensions of p, applied to rows one after the other
Chain(p, rows, sel) ==
  IF p = <<>> THEN rows ELSE Chain(Tail(p), FilterStep(df, rows, Head(p), sel), sel)

\* the dimensions whose filters apply to a target (the metrics or a chart)
FiltersOf(t) == Dims \ {t}

\* C13: for the metrics and for each chart, the filter statements of the target's
\* dimensions applied in any order give the subset the view was computed from.
C13_Commute ==
  view.rendered =>
    \A t \in {"kpi"} \cup Dims : \A p \in Perms(FiltersOf(t)) :
      Chain(p, Labels(df), view.status) = view.data[t]

\* C13 witness: two dimensions hold selections that keep different rows, each leaving
\* some out, and some row passes both.
C13_Witness ==
  /\ view.rendered
  /\ view.data.kpi # <<>>
  /\ \E e1, e2 \in Dims :
       /\ view.status[e1] # ALL /\ view.status[e2] # ALL
       /\ FilterStep(df, Labels(df), e1, view.status) # FilterStep(df, Labels(df), e2, view.status)
       /\ FilterStep(df, Labels(df), e1, view.status) # view.data.kpi
       /\ FilterStep(df, Labels(df), e2, view.status) # view.data.kpi

\* the largest Dataset of which every subset is tried
MaxSubsetRows == 4

RECURSIVE SubSeqs(_)
\* the subsets of the rows sq, each in the order of sq
SubSeqs(sq) ==
  IF sq = <<>> THEN {<<>>}
  ELSE LET rest == SubSeqs(Tail(sq))
       IN  rest \cup {<<Head(sq)>> \o r : r \in rest}

\* the subsets the filters are tried on: every subset of a small Dataset, and the
\* subsets of the view of a large one
Subsets ==
  IF Len(df) <= MaxSubsetRows THEN SubSeqs(Labels(df))
  ELSE {view.data[t] : t \in {"kpi"} \cup Dims} \cup {Labels(df)}

\* C14: the filter statement of a dimension whose selection is All returns any subset
\* as it is, the same rows in the same order; and a target all of whose filters are All
\* is computed from the whole Dataset.
C14_AllKeeps ==
  view.rendered =>
    /\ \A e \in Dims : view.status[e] = ALL =>
         \A rows \in Subsets : FilterStep(df, rows, e, view.status) = rows
    /\ \A t \in {"kpi"} \cup Dims :
         (\A e \in FiltersOf(t) : view.status[e] = ALL) => view.data[t] = Labels(df)

\* C14 witness: one dimension is All and another holds a selection that leaves rows out,
\* so a chart is computed from the whole Dataset and the metrics are not.
C14_Witness ==
  /\ view.rendered
  /\ \E e \in Dims : view.status[e] = ALL
  /\ \E dm \in Dims : view.data[dm] = Labels(df) /\ view.status[dm] # ALL
  /\ view.data.kpi # <<>>
  /\ view.data.kpi # Labels(df)

----------------------------------------------------------------------------
(* Invariants of the Filter State *)

\* the values of the column of dimension dm
Column(dm) == {df[i][dm] : i \in 1..Len(df)}

\* C15: under resets and clicks on displayed bars, the stores hold one string for each
\* of the three dimensions, which is "All" or a value of the dimension's column.
C15_StoredValues ==
  /\ DOMAIN store = Dims
  /\ \A dm \in Dims : store[dm].k = "str" /\ (store[dm] = ALL \/ store[dm] \in Column(dm))

\* C15 witness: clicks have put a value of its column in each of the three stores.
C15_Witness ==
  /\ last.op = "click"
  /\ \A dm \in Dims : store[dm] # ALL /\ store[dm] \in Column(dm)

\* the chart event l has a payload that holds no clicked value where one is looked for:
\* {} or {'points': []} as clickData; a signalData without the chart's signal, with an
\* empty list of values, or with the values under another field
MalformedPayload(l) ==
  IF variant = "vega_sm" THEN l.signal.t \in {"nosignal", "emptylist", "wrongkey"}
  ELSE l.click.t \in {"empty", "nopoints"}

\* the chart event l carries a value that is not in the column of its dimension
UnknownValue(l) == CarriesValue(l) /\ ClickedValue(l) \notin Column(l.dim)

\* C16: an event of an unrecognized trigger, a chart event with a malformed payload and
\* a chart event whose value is not in its dimension's column are ignored: the state
\* callback leaves the three stores as they are.
C16_Ignored ==
  [][/\ loaded => StateCallback(variant, "other-input", NoClicks, NoSignals, store).store = store
     /\ \A dm \in Dims :
          (ChartStep(dm) /\ (MalformedPayload(last') \/ UnknownValue(last')))
            => store' = store]_vars

----------------------------------------------------------------------------
(* Properties of interleaved interactions *)

\* C17: the responses are applied in the order of their clicks (none after a later one),
\* each was computed from the Filter State it is applied to, and no click's response is
\* discarded: once nothing is in flight, every click has been applied.
C17_NoStale ==
  /\ \A j, k \in 1..Len(net.log) : j < k => net.log[j].seq < net.log[k].seq
  /\ \A j \in 1..Len(net.log) : net.log[j].fresh
  /\ net.reqs = {} => Len(net.log) = net.issued

\* the stores s are a complete Filter State: one value for each of the three dimensions
Complete(s) == DOMAIN s = Dims /\ \A dm \in Dims : s[dm].k \in {"str", "num"}

\* C18: every step leaves a complete Filter State in the stores, and a render takes the
\* three stores as they are at that moment and computes the metrics and the three
\* charts from them alone: its subsets, its metrics and each chart's rows and highlight
\* are those of the one state it reports.
C18_WholeState ==
  [][/\ Complete(store')
     /\ view' # view =>
          /\ store' = store
          /\ view'.status = store
          /\ \A t \in {"kpi"} \cup Dims : view'.data[t] = Restricted(FiltersOf(t), store)
          /\ view'.kpis = Kpis(df, view'.data.kpi)
          /\ \A dm \in Dims :
               view'.fig[dm] \in Figures(variant, df, view'.data[dm], dm, Measure(dm),
                                        store[dm], Orientation(dm))]_vars

\* C18 witness: a click changed one dimension while another held a selection, and the
\* view is rendered from the two together.
C18_Witness ==
  /\ view.rendered
  /\ ~dirty
  /\ last.op \in {"click", "refire"}
  /\ view.status = store
  /\ \E e1, e2 \in Dims : e1 # e2 /\ store[e1] # ALL /\ store[e2] # ALL
  /\ view.data.kpi # <<>>
  /\ \E dm \in Dims : view.data[dm] # view.data.kpi

----------------------------------------------------------------------------
(* The Dataset and the view as a function *)

\* C19: no step (page load, click, reset, stray event, render) changes the Dataset: df
\* has the same records with the same values after the step as before it.
C19_DatasetKept == [][df' = df]_vars

\* C19 witness: the Dataset was rendered under a selection that leaves rows out, and the
\* selection was then reset.
C19_Witness ==
  /\ last.op = "reset"
  /\ view.rendered
  /\ view.data.kpi # <<>>
  /\ Len(view.data.kpi) < Len(df)
  /\ \E raw \in RawTables : df = LoadData(variant, raw)

----------------------------------------------------------------------------
(* Loading, failures and the order of the callbacks *)

\* C21: the Dataset holds every string dimension field as a string without surrounding
\* whitespace, so that no chart shows two bars whose values differ by surrounding
\* whitespace only.
C21_Trimmed ==
  /\ \A i \in 1..Len(df) : \A dm \in Dims : df[i][dm] = CleanCol(df[i][dm])
  /\ view.rendered =>
       \A dm \in Dims : \A g, h \in Displayed(dm) : CleanCol(g) = CleanCol(h) => g = h

\* C22: a state-management variant starts in every environment, whether the two files
\* are there and readable or not: load_data returns, and the Dataset it returns has
\* records.
C22_MockData == variant \in {"plotly_sm", "vega_sm"} => (Started /\ df # <<>>)

\* a KPI string: text that is not empty
MetricString(k) == Len(k) > 0

\* a figure to draw: the "No Data" figure, or bars with one colour each
ValidFigure(f) ==
  \/ f.kind = "nodata"
  \/ f.kind = "bar" /\ Len(f.rows) > 0 /\ Len(f.colors) = Len(f.rows)

\* a complete render payload for the Filter State sel: four metric strings, three
\* figures and the status text of sel
ValidPayload(p, sel) ==
  /\ p.rendered
  /\ Len(p.kpis) = 4
  /\ \A j \in 1..4 : MetricString(p.kpis[j])
  /\ \A j \in 1..2 : Head(p.kpis[j]) = "$"
  /\ DOMAIN p.fig = Dims
  /\ \A dm \in Dims : ValidFigure(p.fig[dm])
  /\ p.status = sel

\* C23: for every Filter State delivered to it, one holding a value of no record
\* included, the view function returns (it raises nothing), and what it returns is a
\* complete render payload; the view on display is such a payload.
C23_ValidRender ==
  /\ loaded =>
       /\ update_view(variant, df, store) # {}
       /\ \A p \in update_view(variant, df, store) : ValidPayload(p, store)
  /\ view.rendered => ValidPayload(view, view.status)

\* C23 witness: a Filter State with a value of no record, delivered by a stray event, is
\* rendered, with "No Data" figures and zero metrics beside a chart that has bars.
C23_Witness ==
  /\ last.op = "stray"
  /\ view.rendered
  /\ ~dirty
  /\ view.status = store
  /\ \E dm \in Dims : store[dm] # ALL /\ store[dm] \notin Column(dm)
  /\ view.kpis = ZeroKpis
  /\ \E dm \in Dims : view.fig[dm].kind = "nodata"
  /\ \E dm \in Dims : view.fig[dm].kind = "bar"

\* the outputs of the state callback for a click on the displayed bar b of chart dm
ClickOutputs(dm, b) ==
  StateCallback(variant, ChartId(dm), OnlyClick(dm, BarPoint(dm, b.key, b.val)), NoSignals, store)

\* C24: in the Plotly variants the callback run on a bar click returns None for the
\* clickData of the three charts; the run re-fired by that reset raises PreventUpdate and
\* leaves the stores alone, as does every step until the next event is taken; and after
\* a click the callbacks come to rest, the re-fired run done and the view rendered.
C24_Quiescence ==
  /\ [](variant # "vega_sm" /\ view.rendered =>
          \A dm \in Dims : \A b \in Bars(dm) :
             ClickOutputs(dm, b).status = "ok" /\ ClickOutputs(dm, b).clicks = NoClicks)
  /\ [][variant # "vega_sm" =>
          /\ (refire \in Dims /\ refire' # refire) =>
               /\ last'.op = "refire"
               /\ last'.outcome = "prevent"
               /\ refire' = "none"
          /\ ~Idle => store' = store]_vars
  /\ (variant # "vega_sm" /\ refire \in Dims) ~> (Idle /\ last.op = "refire")

\* C24 witness: a click selected a value, the re-fired run was refused, the view shows
\* the selection and the next event can be taken.
C24_Witness ==
  /\ variant # "vega_sm"
  /\ Idle
  /\ last.op = "refire"
  /\ last.outcome = "prevent"
  /\ store[last.dim] # ALL
  /\ view.status = store

\* C25: in the Vega variant, when the chart of dimension d, redrawn with the selected
\* value as its initial selection, writes its selection signal again (with that value,
\* or with an empty selection), the stored value of d stays as it is.
C25_NoBounce ==
  [][\A dm \in Dims :
       (Idle /\ last'.op = "reemit" /\ last'.dim = dm) => store'[dm] = store[dm]]_vars

\* C26: a step that changes the Filter State asks for a render; whenever no render is
\* pending the view on display is the one computed from the stored Filter State (its
\* metrics and its three charts); and a pending render is done: after a click or a
\* reset the view comes to show the resulting Filter State.
C26_Recomputed ==
  /\ [][store' # store => dirty']_vars
  /\ []((loaded /\ ~dirty) =>
          /\ view.rendered
          /\ view.status = store
          /\ view \in update_view(variant, df, store))
  /\ (loaded /\ dirty) ~> (~dirty /\ view.status = store)

\* C26 witness: a reset was served and rendered: the view shows the metrics and the
\* charts of the whole Dataset, and the next event can be taken.
C26_Witness ==
  /\ last.op = "reset"
  /\ last.outcome = "ok"
  /\ Idle
  /\ df # <<>>
  /\ view.status = AllStore
  /\ view.data.kpi = Labels(df)
  /\ \A dm \in Dims : view.fig[dm].kind = "bar"

----------------------------------------------------------------------------
(* The selected bar, the empty view and the selected bar's value *)

\* C27: in every rendered view, the chart of a dimension that holds a selection has a
\* row for the selected value.
C27_SelectedShown ==
  view.rendered =>
    \A dm \in Dims : view.status[dm] # ALL => view.status[dm] \in Displayed(dm)

\* C28: with a Dataset that has records, the records that pass the three stored
\* selections are never none, and no rendered view has an empty metrics subset.
C28_NeverEmpty ==
  df # <<>> =>
    /\ Restricted(Dims, store) # <<>>
    /\ view.rendered => view.data.kpi # <<>>

\* the place of the KPI that the claim matches with chart dm: Total Profit, the second
\* of the four, for the sub-category chart, Total Amount, the first, for the others
MatchingKpi(dm) == IF dm = "sub" THEN 2 ELSE 1

\* C29: in every rendered view and for every dimension d that holds a selection, the
\* metrics subset is chart d's subset restricted to the selected value of d, and a
\* displayed bar of the selected value has the value the matching KPI shows (Total
\* Amount for the state and customer charts, Total Profit for the sub-category chart).
C29_BarIsKpi ==
  view.rendered =>
    \A dm \in Dims :
      view.status[dm] # ALL =>
        /\ view.data.kpi = Where(df, view.data[dm], dm, view.status[dm])
        /\ \A b \in Bars(dm) :
             b.key = view.status[dm] => FmtMoney(b.val) = view.kpis[MatchingKpi(dm)]

\* C29 witness: the selected sub-category's bar is displayed among others, under a
\* selection of another dimension, and its profit is not its amount.
C29_Witness ==
  /\ view.rendered
  /\ view.status.sub # ALL
  /\ \E e \in {"state", "cust"} : view.status[e] # ALL
  /\ Cardinality(Bars("sub")) > 1
  /\ \E b \in Bars("sub") :
       /\ b.key = view.status.sub
       /\ FmtMoney(b.val) = view.kpis[2]
       /\ view.kpis[2] # view.kpis[1]

----------------------------------------------------------------------------
(* The single-callback Vega variant *)

\* C30: in app_cross_filter_vega.py, after every run of update_dashboard that returned,
\* every chart on display other than the one whose signal triggered the run is computed
\* from the DataFrame the KPIs on display are computed from.
C30_Consistent ==
  (variant = Single /\ view.rendered /\ last.outcome = "ok") =>
    \A dm \in Dims \ {last.dim} : view.data[dm] = view.data.kpi

====
